---- MODULE Spec2Model ----
(***************************************************************************)
(* Kenwood TH-D72 clone-mode driver (chirp/drivers/thd72.py): the memory   *)
(* image, the dirty-block list and the block transfer protocol.            *)
(*                                                                         *)
(* The driver is single threaded and every pipe call blocks, so a host     *)
(* call runs to completion before the next one starts: each call is one    *)
(* step, and what the radio answers on the serial line is its input.       *)
(* The pipe calls a call made are kept until the host takes over again.    *)
(*                                                                         *)
(* A string of bytes that is as long as a block is kept as its most common *)
(* byte (fill) and the offsets that differ from it (patch), and the image  *)
(* as its 256 blocks; the radio's images are uniform inside each block.    *)
(***************************************************************************)
EXTENDS Integers, Sequences, FiniteSets, TLC

VARIABLES
    mmap,      \* self._mmap: the in-memory image
    dirty,     \* self._dirty_blocks
    pc,        \* idle: the host may call; returned: a call has just returned or
               \* raised; hung: the call is blocked in a read loop for ever
    op,        \* the call that has just returned (or hangs)
    result,    \* how it ended: ok, or the exception raised
    wire,      \* the pipe calls it made, in order
    ses,       \* its download / upload: blocks, count, what the radio sent, the
               \* blocks asked for, the dirty blocks when it was called, and
               \* the blocks of the image it changed
    data,      \* what its download returned
    ret,       \* the channel its get_memory returned
    stale,     \* the blocks the radio holds with another content than the
               \* image: what it last sent or acknowledged for each
    klass,     \* THD72Radio._dirty_blocks, the list of the class
    objs,      \* two radios: the image and the list of each
    act,       \* the last call on one of the two radios
    calls      \* host calls made so far

\* the radio of the sessions, and the two radios
one == <<mmap, dirty, pc, op, result, wire, ses, data, ret, stale>>
two == <<klass, objs, act>>
vars == <<mmap, dirty, pc, op, result, wire, ses, data, ret, stale, klass, objs, act, calls>>

(***************************************************************************)
(* Bounds of the model                                                     *)
(***************************************************************************)
MaxCalls == 3        \* host calls in one behaviour
MaxFaultPos == 2     \* the radio misbehaves at one of the first MaxFaultPos
                     \* blocks of a transfer, at the last one, or never

(***************************************************************************)
(* Program constants                                                       *)
(***************************************************************************)
MemSize == 65536
BlockSize == 256
NumBlocks == MemSize \div BlockSize
ACK == 6
ChR == 82
ChW == 87
ChE == 69
CR == 13
PadFF == 255

Min(a, b) == IF a < b THEN a ELSE b

(***************************************************************************)
(* Byte strings                                                            *)
(***************************************************************************)
\* a run of len bytes, all fill except at the offsets of patch
Blk(len, fill, patch) == [len |-> len, fill |-> fill, patch |-> patch]
NoBlk == Blk(0, 0, {})

\* memmap.MemoryMap(data): the image, block by block (blks[i + 1] is the
\* run of block i)
MemoryMap(blks) == [i \in 0..(Len(blks) - 1) |-> blks[i + 1]]

\* map[off]
ByteAt(map, off) ==
    LET b == map[off \div BlockSize]
        o == off % BlockSize
    IN  IF \E p \in b.patch : p[1] = o
        THEN (CHOOSE p \in b.patch : p[1] = o)[2]
        ELSE b.fill

\* map[off] = v
SetByte(map, off, v) ==
    LET o == off % BlockSize
    IN  [map EXCEPT ![off \div BlockSize].patch =
            {p \in @ : p[1] # o} \cup
            (IF v = map[off \div BlockSize].fill THEN {} ELSE {<<o, v>>})]

\* map[off:off+Len(bytes)] = bytes
RECURSIVE SetBytes(_, _, _)
SetBytes(map, off, bytes) ==
    IF bytes = <<>> THEN map
    ELSE SetBytes(SetByte(map, off, Head(bytes)), off + 1, Tail(bytes))

\* map[base:base+256], base the start of a block
Slice(map, base) == map[base \div BlockSize]

IsSpace(c) == c \in {9, 10, 11, 12, 13, 32}

\* str.strip()
RECURSIVE LStrip(_)
LStrip(s) == IF s # <<>> /\ IsSpace(Head(s)) THEN LStrip(Tail(s)) ELSE s
RECURSIVE RStrip(_)
RStrip(s) ==
    IF s # <<>> /\ IsSpace(s[Len(s)]) THEN RStrip(SubSeq(s, 1, Len(s) - 1)) ELSE s
Strip(s) == LStrip(RStrip(s))

\* little-endian encoding of a 32-bit value (ul32)
UL32(v) == <<v % 256, (v \div 256) % 256, (v \div 65536) % 256, (v \div 16777216) % 256>>

(***************************************************************************)
(* Memory layout (mem_format)                                              *)
(***************************************************************************)
FlagBase == 3072        \* 0x0c00
MemoryBase == 5376      \* 0x1500
NameBase == 24064       \* 0x5e00
WxNameBase == 32224     \* 0x7de0
FlagSize == 2
MemorySize == 16
NameSize == 8
NumSlots == 1032

FlagOff(n) == FlagBase + FlagSize * n
MemoryOff(n) == MemoryBase + MemorySize * n
ChannelNameOff(n) == NameBase + NameSize * n
WxNameOff(n) == WxNameBase + NameSize * n

\* max(THD72_SPECIAL.values())
MaxSpecial == 1031

(***************************************************************************)
(* Lookup tables                                                           *)
(***************************************************************************)
TMODES_REV(t) ==
    CASE t = "" -> 0 [] t = "Cross" -> 1 [] t = "DTCS" -> 2 [] t = "TSQL" -> 4 [] t = "Tone" -> 8
MODES_REV(m) ==
    CASE m = "FM" -> 0 [] m = "NFM" -> 1 [] m = "AM" -> 2
DUPLEX_REV(d) ==
    CASE d = "" -> 0 [] d = "+" -> 1 [] d = "-" -> 2 [] d = "split" -> 4

\* chirp_common tables (the first entries), tones in tenths of a hertz
TONES == <<670, 693, 719, 744>>
DTCS_CODES == <<23, 25, 26, 31>>
CROSS_MODES == <<"Tone->Tone", "DTCS->", "->DTCS", "Tone->DTCS">>
SKIP_VALUES == <<"", "S", "P">>

\* list.index(x)
Index(list, x) == (CHOOSE i \in 1..Len(list) : list[i] = x) - 1

(***************************************************************************)
(* Dirty blocks                                                            *)
(***************************************************************************)
RECURSIVE Insert(_, _)
Insert(s, x) ==
    IF s = <<>> THEN <<x>>
    ELSE IF x <= Head(s) THEN <<x>> \o s
    ELSE <<Head(s)>> \o Insert(Tail(s), x)

\* list.sort()
RECURSIVE Sort(_)
Sort(s) == IF s = <<>> THEN <<>> ELSE Insert(Sort(Tail(s)), Head(s))

Elems(s) == {s[i] : i \in 1..Len(s)}

\* an add_dirty_block that appends the block whether it is in the list or not
add_dirty_block_again(d, off) == Sort(Append(d, off \div 256))

\* add_dirty_block(memobj) for a record at byte offset off
add_dirty_block(d, off) ==
    LET block == off \div 256
    IN  Sort(IF block \notin Elems(d) THEN Append(d, block) ELSE d)

(***************************************************************************)
(* set_memory                                                              *)
(***************************************************************************)
\* s[:n]
Take(s, n) == SubSeq(s, 1, Min(n, Len(s)))

\* a set_channel_name that marks no block
set_channel_name_unmarked(map, d, number, name) ==
    LET padded == Take(Take(name, 8) \o <<PadFF, PadFF, PadFF, PadFF, PadFF, PadFF, PadFF, PadFF>>, 8)
    IN  IF number < 999
        THEN [mmap  |-> SetBytes(map, ChannelNameOff(number), padded), dirty |-> d]
        ELSE IF number >= 1020 /\ number < 1030
        THEN [mmap  |-> SetBytes(map, WxNameOff(number - 1020), padded), dirty |-> d]
        ELSE [mmap |-> map, dirty |-> d]

\* a set_channel_name that fills the name up with spaces
set_channel_name_spaces(map, d, number, name) ==
    LET padded == Take(Take(name, 8) \o <<32, 32, 32, 32, 32, 32, 32, 32>>, 8)
    IN  IF number < 999
        THEN [mmap  |-> SetBytes(map, ChannelNameOff(number), padded),
              dirty |-> add_dirty_block(d, ChannelNameOff(number))]
        ELSE IF number >= 1020 /\ number < 1030
        THEN [mmap  |-> SetBytes(map, WxNameOff(number - 1020), padded),
              dirty |-> add_dirty_block(d, WxNameOff(number - 1020))]
        ELSE [mmap |-> map, dirty |-> d]

\* set_channel_name(number, name)
set_channel_name(map, d, number, name) ==
    LET padded == Take(Take(name, 8) \o <<PadFF, PadFF, PadFF, PadFF, PadFF, PadFF, PadFF, PadFF>>, 8)
    IN  IF number < 999
        THEN [mmap  |-> SetBytes(map, ChannelNameOff(number), padded),
              dirty |-> add_dirty_block(d, ChannelNameOff(number))]
        ELSE IF number >= 1020 /\ number < 1030
        THEN [mmap  |-> SetBytes(map, WxNameOff(number - 1020), padded),
              dirty |-> add_dirty_block(d, WxNameOff(number - 1020))]
        ELSE [mmap |-> map, dirty |-> d]

\* initialize(_mem): the re-initialization pattern of a channel record
InitPattern == <<128, 200, 179, 8, 0, 1, 0, 8, 8, 0, 192, 39, 9, 0, 0, 255>>
initialize(map, off) == SetBytes(map, off, InitPattern)

\* flag.disabled (u8 disabled:7, unknown0:1)
FlagDisabled(map, n) == ByteAt(map, FlagOff(n)) \div 2
\* the value stored in the whole byte
SetFlagByte(map, n, v) == SetByte(map, FlagOff(n), v)
SetFlagDisabled(map, n, v) ==
    SetByte(map, FlagOff(n), 2 * v + (ByteAt(map, FlagOff(n)) % 2))

\* the assignments to _mem of lines 327-339, and to flag.skip of line 342
WriteChannel(map, d, mem) ==
    LET o  == MemoryOff(mem.number)
        m1 == SetBytes(map, o, UL32(mem.freq))
        nm == IF mem.number < 999
              THEN set_channel_name(m1, d, mem.number, mem.name)
              ELSE [mmap |-> m1, dirty |-> d]
        m2 == SetByte(nm.mmap, o + 6,
                      16 * TMODES_REV(mem.tmode) + (ByteAt(nm.mmap, o + 6) % 16))
        m3 == SetByte(m2, o + 7, Index(TONES, mem.rtone))
        m4 == SetByte(m3, o + 8, Index(TONES, mem.ctone))
        m5 == SetByte(m4, o + 9, Index(DTCS_CODES, mem.dtcs))
        m6 == SetByte(m5, o + 10, Index(CROSS_MODES, mem.cross_mode))
        m7 == SetByte(m6, o + 6,
                      16 * (ByteAt(m6, o + 6) \div 16) + DUPLEX_REV(mem.duplex))
        m8 == SetBytes(m7, o + 11, UL32(mem.offset))
        m9 == SetByte(m8, o + 5, MODES_REV(mem.mode))
        mA == IF mem.number < 999
              THEN SetByte(m9, FlagOff(mem.number) + 1, Index(SKIP_VALUES, mem.skip))
              ELSE m9
    IN  [status |-> "ok", mmap |-> mA, dirty |-> nm.dirty]

\* a set_memory without the lines 308-310
set_memory_no_weather(map, d, mem) ==
    IF mem.number < 0 \/ mem.number > MaxSpecial + 1
    THEN [status |-> "InvalidMemoryLocation", mmap |-> map, dirty |-> d]
    ELSE IF mem.number >= NumSlots
    THEN [status |-> "IndexError", mmap |-> map, dirty |-> d]
    ELSE LET d1 == add_dirty_block(d, FlagOff(mem.number))
         IN  IF mem.empty
             THEN [status |-> "ok", mmap |-> SetFlagDisabled(map, mem.number, 127), dirty |-> d1]
             ELSE WriteChannel(SetFlagDisabled(map, mem.number, 0),
                               add_dirty_block(d1, MemoryOff(mem.number)), mem)

\* set_memory(mem): the image and the dirty blocks after the call, and how it ended
set_memory(map, d, mem) ==
    IF mem.number < 0 \/ mem.number > MaxSpecial + 1
    THEN [status |-> "InvalidMemoryLocation", mmap |-> map, dirty |-> d]
    ELSE IF mem.number >= 1020 /\ mem.number < 1030
    THEN LET r == set_channel_name(map, d, mem.number, mem.name)
         IN  [status |-> "ok", mmap |-> r.mmap, dirty |-> r.dirty]
    ELSE IF mem.number >= NumSlots
    THEN [status |-> "IndexError", mmap |-> map, dirty |-> d]
    ELSE LET d1 == add_dirty_block(d, FlagOff(mem.number))
             was_empty == FlagDisabled(map, mem.number) = 127
         IN  IF mem.empty
             THEN [status |-> "ok", mmap |-> SetFlagDisabled(map, mem.number, 127), dirty |-> d1]
             ELSE LET m1 == SetFlagDisabled(map, mem.number, 0)
                      d2 == add_dirty_block(d1, MemoryOff(mem.number))
                      m2 == IF was_empty THEN initialize(m1, MemoryOff(mem.number)) ELSE m1
                  IN  WriteChannel(m2, d2, mem)

(***************************************************************************)
(* get_memory                                                              *)
(***************************************************************************)
\* "%i" % n, for n below 100
Digits(n) == IF n < 10 THEN <<48 + n>> ELSE <<48 + (n \div 10), 48 + (n % 10)>>

\* THD72_SPECIAL: the special-location names ("L0", "U0", .., "WX1", ..,
\* "C VHF", "C UHF") with their slots
THD72_SPECIAL ==
    {<<<<76>> \o Digits(i), 1000 + i * 2>> : i \in 0..9} \cup
    {<<<<85>> \o Digits(i), 1000 + i * 2 + 1>> : i \in 0..9} \cup
    {<<<<87, 88>> \o Digits(i + 1), 1020 + i>> : i \in 0..9} \cup
    {<<<<67, 32, 86, 72, 70>>, 1030>>, <<<<67, 32, 85, 72, 70>>, 1031>>}

SpecialNames == {p[1] : p \in THD72_SPECIAL}
SpecialSlot(name) == (CHOOSE p \in THD72_SPECIAL : p[1] = name)[2]
\* THD72_SPECIAL_REV[number]
THD72_SPECIAL_REV(number) == (CHOOSE p \in THD72_SPECIAL : p[2] = number)[1]

\* the decode tables: raw code to value
TMODES == {<<8, "Tone">>, <<4, "TSQL">>, <<2, "DTCS">>, <<1, "Cross">>, <<0, "">>}
MODES == {<<0, "FM">>, <<1, "NFM">>, <<2, "AM">>}
DUPLEX == {<<0, "">>, <<1, "+">>, <<2, "-">>, <<4, "split">>}
HasKey(table, c) == \E p \in table : p[1] = c
Lookup(table, c) == (CHOOSE p \in table : p[1] = c)[2]

\* map[off:off+n]
Bytes(map, off, n) == [k \in 1..n |-> ByteAt(map, off + k - 1)]
\* int(ul32)
FromUL32(b) == b[1] + 256 * b[2] + 65536 * b[3] + 16777216 * b[4]

\* name[:name.index('\xff')]
RECURSIVE UpToFF(_)
UpToFF(s) ==
    IF s = <<>> \/ Head(s) = PadFF THEN <<>> ELSE <<Head(s)>> \o UpToFF(Tail(s))

\* get_channel_name(number)
get_channel_name(map, number) ==
    IF number < 999
    THEN RStrip(UpToFF(Bytes(map, ChannelNameOff(number), NameSize) \o <<PadFF>>))
    ELSE IF number >= 1020 /\ number < 1030
    THEN RStrip(UpToFF(Bytes(map, WxNameOff(number - 1020), NameSize) \o <<PadFF>>))
    ELSE <<>>

\* chirp_common.Memory(): a channel with the fields at their defaults
Memory ==
    [status |-> "ok", number |-> 0, extd_number |-> <<>>, empty |-> FALSE, name |-> <<>>,
     freq |-> 0, tmode |-> "", rtone |-> 885, ctone |-> 885, dtcs |-> 23,
     cross_mode |-> "Tone->Tone", duplex |-> "", offset |-> 600000, mode |-> "FM",
     skip |-> "", immutable |-> <<>>]
Raised(err) == [Memory EXCEPT !.status = err]
\* no get_memory was called
NoMemory == Raised("none")

\* the argument of get_memory: a slot number, or a name
Num(n) == [str |-> FALSE, n |-> n, s |-> <<>>]
Str(name) == [str |-> TRUE, n |-> 0, s |-> name]

\* the four fields of line 292 alone
ImmutableBase(number) == <<"number", "bank", "extd_number", "cross_mode">>

\* lines 292-297
Immutable(number) ==
    <<"number", "bank", "extd_number", "cross_mode">> \o
    (IF number >= 1020 /\ number < 1030
     THEN <<"freq", "offset", "tone", "mode", "tmode", "ctone", "skip">>
     ELSE <<"name">>)

\* lines 277-297: the fields of a slot that is not empty
DecodeChannel(map, number, mem) ==
    LET r   == Bytes(map, MemoryOff(number), MemorySize)
        tm  == r[7] \div 16
        dup == r[7] % 16
        skp == ByteAt(map, FlagOff(number) + 1)
    IN  IF ~HasKey(TMODES, tm) THEN Raised("KeyError")
        ELSE IF r[8] >= Len(TONES) \/ r[9] >= Len(TONES) \/ r[10] >= Len(DTCS_CODES)
        THEN Raised("IndexError")
        ELSE IF ~HasKey(DUPLEX, dup) \/ ~HasKey(MODES, r[6]) THEN Raised("KeyError")
        ELSE IF number < 999 /\ (skp >= Len(SKIP_VALUES) \/ r[11] >= Len(CROSS_MODES))
        THEN Raised("IndexError")
        ELSE [mem EXCEPT
                !.name = get_channel_name(map, number),
                !.freq = FromUL32(SubSeq(r, 1, 4)),
                !.tmode = Lookup(TMODES, tm),
                !.rtone = TONES[r[8] + 1],
                !.ctone = TONES[r[9] + 1],
                !.dtcs = DTCS_CODES[r[10] + 1],
                !.duplex = Lookup(DUPLEX, dup),
                !.offset = FromUL32(SubSeq(r, 12, 15)),
                !.mode = Lookup(MODES, r[6]),
                !.skip = IF number < 999 THEN SKIP_VALUES[skp + 1] ELSE @,
                !.cross_mode = IF number < 999 THEN CROSS_MODES[r[11] + 1]
                               ELSE IF number > 999 THEN CROSS_MODES[1] ELSE @,
                !.immutable = IF number > 999 THEN Immutable(number) ELSE @]

\* get_memory(number): the channel returned, or the exception raised
get_memory(map, arg) ==
    IF arg.str /\ arg.s \notin SpecialNames THEN Raised("InvalidMemoryLocation")
    ELSE LET number == IF arg.str THEN SpecialSlot(arg.s) ELSE arg.n
         IN  IF number < 0 \/ number > MaxSpecial + 1
             THEN Raised("InvalidMemoryLocation")
             ELSE IF number >= NumSlots THEN Raised("IndexError")
             ELSE LET mem == [Memory EXCEPT
                                !.number = number,
                                !.extd_number = IF number > 999
                                                THEN THD72_SPECIAL_REV(number) ELSE @]
                  IN  IF FlagDisabled(map, number) = 127
                      THEN [mem EXCEPT !.empty = TRUE]
                      ELSE DecodeChannel(map, number, mem)

(***************************************************************************)
(* Inputs of set_memory                                                    *)
(***************************************************************************)
\* the slots the host writes: ordinary (first, last), reserved, scan bank,
\* weather, band scope, and the ones just outside the tables
SlotSample == {0, 998, 1025, 1031, 1032, 1033}

NameAB == <<65, 66>>
Channel(n, empty, name, freq) ==
    [number |-> n, empty |-> empty, name |-> name, freq |-> freq,
     tmode |-> "Tone", rtone |-> 693, ctone |-> 670, dtcs |-> 23,
     cross_mode |-> "Tone->Tone", duplex |-> "+", offset |-> 600000,
     mode |-> "FM", skip |-> "S"]

MemSample ==
    {Channel(n, TRUE, <<>>, 0) : n \in {0, 1025, 1031}} \cup
    {Channel(n, FALSE, NameAB, 146520000) : n \in SlotSample}

(***************************************************************************)
(* The pipe                                                                *)
(***************************************************************************)
\* one pipe call: its name, its argument or the bytes moved, and, for a
\* block of data, the run of bytes
Call(o, arg) == [op |-> o, arg |-> arg, blk |-> NoBlk]
CallBlk(o, b) == [op |-> o, arg |-> <<>>, blk |-> b]

\* struct.pack("<cBHB", cmd, 0, block, 0)
Frame(cmd, block) == <<cmd, 0, block % 256, (block \div 256) % 256, 0>>

\* the bytes command() reads, one at a time, of what the radio sends within
\* the timeout: up to the first "\r"
RECURSIVE UpToCR(_)
UpToCR(s) ==
    IF s = <<>> THEN <<>>
    ELSE IF Head(s) = CR THEN <<CR>>
    ELSE <<Head(s)>> \o UpToCR(Tail(s))

\* command(cmd), the radio sending reply: the value returned and the pipe calls
command(cmd, reply) ==
    LET got == UpToCR(reply)
    IN  [ret  |-> Strip(got),
         wire |-> <<Call("write", cmd \o <<CR>>), Call("read", got)>>]

CmdID == <<73, 68>>                                   \* "ID"
CmdProgram == <<48, 77, 32, 80, 82, 79, 71, 82, 65, 77>>  \* "0M PROGRAM"
Str0M == <<48, 77>>                                   \* "0M"
StrIDsp == <<73, 68, 32>>                             \* "ID "

\* r.startswith(p)
StartsWith(r, p) == Len(r) >= Len(p) /\ SubSeq(r, 1, Len(p)) = p

\* a get_id that takes every answer beginning with "ID"
get_id_bare(reply) ==
    LET c == command(CmdID, reply)
    IN  [ok |-> StartsWith(c.ret, CmdID), wire |-> c.wire]

\* get_id(): ok, or RadioError
get_id(reply) ==
    LET c == command(CmdID, reply)
    IN  [ok |-> StartsWith(c.ret, StrIDsp), wire |-> c.wire]

BaudRates == <<9600, 19200, 38400, 57600>>

\* _detect_baud(): in.replies[k] is what the radio answers to "ID" at the
\* k-th rate, in.wfail the rate (0: none) at which writing to the pipe raises
RECURSIVE DetectLoop(_, _, _)
DetectLoop(k, in, w) ==
    IF k > Len(BaudRates)
    THEN [status |-> "RadioError", wire |-> w, baud |-> BaudRates[Len(BaudRates)]]
    ELSE LET w1 == Append(w, Call("setBaudrate", <<BaudRates[k]>>))
         IN  IF in.wfail = k
             THEN [status |-> "RadioError", wire |-> Append(w1, Call("write_raises", <<CR, CR>>)),
                   baud |-> BaudRates[k]]
             ELSE LET w2 == w1 \o <<Call("write", <<CR, CR>>), Call("read", <<>>)>>
                      id == get_id(in.replies[k])
                  IN  IF id.ok
                      THEN [status |-> "ok", wire |-> w2 \o id.wire, baud |-> BaudRates[k]]
                      ELSE DetectLoop(k + 1, in, w2 \o id.wire)

detect_baud(in) == DetectLoop(1, in, <<>>)

(***************************************************************************)
(* What the radio sends                                                    *)
(***************************************************************************)
ReplyID == <<73, 68, 32, 84, 72, 45, 68, 55, 50, CR>>   \* "ID TH-D72\r"
ReplyIDBare == <<73, 68, CR>>                          \* "ID\r"
Reply0M == <<48, 77, CR>>                              \* "0M\r"
Reply0MNoCR == <<48, 77>>                              \* "0M", then silence
ReplyN == <<78, CR>>                                   \* "N\r"
ReplyQ == <<63, CR>>                                   \* "?\r"

\* the radio answers "ID" at rate number ans (0: at none)
ProbeReplies(ans, other) == [k \in 1..Len(BaudRates) |-> IF k = ans THEN ReplyID ELSE other]
ProbeInputs ==
    {[replies |-> ProbeReplies(ans, <<>>), wfail |-> 0] : ans \in 0..Len(BaudRates)} \cup
    {[replies |-> ProbeReplies(ans, ReplyQ), wfail |-> 0] : ans \in {0, 3}} \cup
    {[replies |-> ProbeReplies(0, ReplyIDBare), wfail |-> 0],
     [replies |-> ProbeReplies(3, <<>>), wfail |-> 2],
     [replies |-> ProbeReplies(1, <<>>), wfail |-> 2]}

\* the images a radio holds: 1 is blank, the blocks of 2 differ
DevImages == {1, 2}
DevFill(dev, i) == IF dev = 1 THEN PadFF ELSE i % 3
DevImage(dev) == MemoryMap([k \in 1..NumBlocks |-> Blk(BlockSize, DevFill(dev, k - 1), {})])

\* the bytes the radio sends for one block of a download: the response
\* frame, the payload in the pieces the reads deliver it in, and the echo
GoodBlock(i) == [hdr |-> Frame(ChW, i), chunks |-> <<BlockSize>>, echo |-> <<ACK>>]
BlockReply(kind, i) ==
    CASE kind = "nohdr"    -> [GoodBlock(i) EXCEPT !.hdr = <<>>]
      [] kind = "shorthdr" -> [GoodBlock(i) EXCEPT !.hdr = SubSeq(Frame(ChW, i), 1, 4)]
      [] kind = "badtag"   -> [GoodBlock(i) EXCEPT !.hdr = Frame(ChR, i)]
      [] kind = "badblock" -> [GoodBlock(i) EXCEPT !.hdr = Frame(ChW, (i + 1) % NumBlocks)]
      [] kind = "badhi"    -> [GoodBlock(i) EXCEPT !.hdr = Frame(ChW, i + 256)]
      [] kind = "badzero1" -> [GoodBlock(i) EXCEPT !.hdr[2] = 1]
      [] kind = "badzero2" -> [GoodBlock(i) EXCEPT !.hdr[5] = 1]
      [] kind = "split"    -> [GoodBlock(i) EXCEPT !.chunks = <<100, 156>>]
      [] kind = "stall"    -> [GoodBlock(i) EXCEPT !.chunks = <<100>>]
      [] kind = "noecho"   -> [GoodBlock(i) EXCEPT !.echo = <<>>]
      [] kind = "badecho"  -> [GoodBlock(i) EXCEPT !.echo = <<21>>]
      [] OTHER             -> GoodBlock(i)
DownloadFaults ==
    {"nohdr", "shorthdr", "badtag", "badblock", "badhi", "badzero1", "badzero2",
     "split", "stall", "noecho", "badecho"}

\* the byte the radio sends after a written block
AckReply(kind) ==
    CASE kind = "nak" -> <<21>> [] kind = "silent" -> <<>> [] OTHER -> <<ACK>>
UploadFaults == {"nak", "silent"}

\* the blocks at which the radio may misbehave in a transfer of blocks
FaultBlocks(blocks) ==
    {blocks[k] : k \in {j \in 1..Len(blocks) : j <= MaxFaultPos \/ j = Len(blocks)}}
\* the first of them
FirstBlock(blocks) == {blocks[k] : k \in {j \in 1..Len(blocks) : j = 1}}

Script(dev, mode, at, kind) == [dev |-> dev, mode |-> mode, at |-> at, kind |-> kind]
NoScript == Script(0, <<>>, -1, "none")

(***************************************************************************)
(* download                                                                *)
(***************************************************************************)
RECURSIVE Sum(_)
Sum(s) == IF s = <<>> THEN 0 ELSE Head(s) + Sum(Tail(s))

\* the reads of the payload loop of read_block: each read asks for what is
\* still missing and gets the next piece the radio delivers
PayloadReads(chunks, fill) == [k \in 1..Len(chunks) |-> CallBlk("read", Blk(chunks[k], fill, {}))]

\* a response check that looks at the tag only
ResponseRefusedTagOnly(r, block) == Len(r) # 5 \/ r[1] # ChW

\* lines 359-364: the response r to the request for block raises
ResponseRefused(r, block) ==
    \/ Len(r) # 5
    \/ r[1] # ChW \/ r[3] + 256 * r[4] # block

\* an echo check that takes any answer
EchoRefusedNever(echo) == FALSE

\* lines 371-372: the answer to the acknowledgement byte raises
EchoRefused(echo) == echo # <<ACK>>

\* read_block(block), the radio sending reply and, as payload, bytes of fill
read_block(block, reply, fill) ==
    LET w1 == <<Call("write", Frame(ChR, block)), Call("read", reply.hdr)>>
    IN  IF ResponseRefused(reply.hdr, block)
        THEN [status |-> "Exception", wire |-> w1, data |-> NoBlk]
        ELSE LET w2 == w1 \o PayloadReads(reply.chunks, fill)
             IN  IF Sum(reply.chunks) < BlockSize
                 THEN [status |-> "hang", wire |-> w2, data |-> NoBlk]
                 ELSE LET w3 == w2 \o <<Call("write", <<ACK>>), Call("read", reply.echo)>>
                      IN  IF EchoRefused(reply.echo)
                          THEN [status |-> "Exception", wire |-> w3, data |-> NoBlk]
                          ELSE [status |-> "ok", wire |-> w3, data |-> Blk(BlockSize, fill, {})]

\* a handshake that does not look at the answer to the mode command
HandshakeUnchecked(in) ==
    [status |-> "ok",
     wire |-> command(CmdProgram, in.mode).wire \o
              <<Call("setBaudrate", <<57600>>), Call("getCTS", <<>>),
                Call("setRTS", <<>>), Call("read", <<0>>)>>]

\* the mode handshake and the flow handshake of download and upload
\* (lines 391-398 and 428-434)
Handshake(in) ==
    LET c == command(CmdProgram, in.mode)
    IN  IF c.ret # Str0M
        THEN [status |-> "RadioError", wire |-> c.wire]
        ELSE [status |-> "ok",
              wire |-> c.wire \o <<Call("setBaudrate", <<57600>>), Call("getCTS", <<>>),
                                   Call("setRTS", <<>>), Call("read", <<0>>)>>]

\* what a stretch of a loop leaves: how it ended (run: the loop goes on),
\* the pipe calls made, the data gathered and the blocks counted
Stretch(status, w, d, n) == [status |-> status, wire |-> w, data |-> d, count |-> n]
Join(left, right) ==
    Stretch(right.status, left.wire \o right.wire, left.data \o right.data,
            left.count + right.count)

\* a pass that adds nothing for a block that was not asked for
DownloadBodyNoPadding(i, wanted, in) ==
    IF i \notin wanted
    THEN Stretch("run", <<>>, <<>>, 0)
    ELSE LET rb == read_block(i, BlockReply(IF in.at = i THEN in.kind ELSE "none", i),
                              DevFill(in.dev, i))
         IN  IF rb.status # "ok"
             THEN Stretch(rb.status, rb.wire, <<>>, 0)
             ELSE Stretch("run", rb.wire, <<rb.data>>, 1)

\* one pass of the loop of download (lines 403-414), for block i
DownloadBody(i, wanted, in) ==
    IF i \notin wanted
    THEN Stretch("run", <<>>, <<Blk(BlockSize, PadFF, {})>>, 0)
    ELSE LET rb == read_block(i, BlockReply(IF in.at = i THEN in.kind ELSE "none", i),
                              DevFill(in.dev, i))
         IN  IF rb.status # "ok"
             THEN Stretch(rb.status, rb.wire, <<>>, 0)
             ELSE Stretch("run", rb.wire, <<rb.data>>, 1)

\* the passes for blocks lo..hi in order, none after one that raised (the
\* range is halved to keep the evaluation shallow)
RECURSIVE DownloadLoop(_, _, _, _)
DownloadLoop(lo, hi, wanted, in) ==
    IF lo = hi THEN DownloadBody(lo, wanted, in)
    ELSE LET mid == (lo + hi) \div 2
             left == DownloadLoop(lo, mid, wanted, in)
         IN  IF left.status # "run" THEN left
             ELSE Join(left, DownloadLoop(mid + 1, hi, wanted, in))

\* what download and upload return to the model: the stretch and the blocks
Transfer(st, blocks) ==
    [status |-> st.status, wire |-> st.wire, data |-> st.data, count |-> st.count,
     blocks |-> blocks]

\* lines 386-389: the blocks download reads (blocks = None is isNone)
DownloadBlocks(isNone, blocksArg) ==
    IF isNone THEN [k \in 1..(MemSize \div 256) |-> k - 1]
    ELSE SelectSeq(blocksArg, LAMBDA b : b < MemSize \div 256)

\* download(raw, blocks)
download(isNone, blocksArg, in) ==
    LET blocks == DownloadBlocks(isNone, blocksArg)
        hs == Handshake(in)
        start == Stretch("run", hs.wire, <<>>, 0)
    IN  IF hs.status # "ok" THEN Transfer([start EXCEPT !.status = hs.status], blocks)
        ELSE IF blocks = <<>> THEN Transfer([start EXCEPT !.status = "IndexError"], blocks)
        ELSE LET end == Join(start, DownloadLoop(0, NumBlocks - 1, Elems(blocks), in))
             IN  IF end.status # "run" THEN Transfer(end, blocks)
                 ELSE Transfer(Join(end, Stretch("ok", <<Call("write", <<ChE>>)>>, <<>>, 0)),
                               blocks)

(***************************************************************************)
(* upload                                                                  *)
(***************************************************************************)
\* write_block(block, map), the radio answering ack: the value returned
write_block(block, map, ack) ==
    [ret  |-> ack = <<ACK>>,
     wire |-> <<Call("write", Frame(ChW, block)),
                CallBlk("write", Slice(map, block * 256)),
                Call("read", ack)>>]

\* a pass that writes block k - 1 in place of the k-th block of the list
UploadBodyByIndex(k, blocks, map, in) ==
    LET i == k - 1
        wb == write_block(i, map, AckReply(IF in.at = i THEN in.kind ELSE "none"))
    IN  Stretch(IF wb.ret THEN "run" ELSE "RadioError", wb.wire, <<>>, 1)

\* a pass that goes on after a block that was not acknowledged
UploadBodyGoesOn(k, blocks, map, in) ==
    LET i == blocks[k]
        wb == write_block(i, map, AckReply(IF in.at = i THEN in.kind ELSE "none"))
    IN  Stretch("run", wb.wire, <<>>, 1)

\* one pass of the loop of upload (lines 438-448), for the k-th block
UploadBody(k, blocks, map, in) ==
    LET i == blocks[k]
        wb == write_block(i, map, AckReply(IF in.at = i THEN in.kind ELSE "none"))
    IN  Stretch(IF wb.ret THEN "run" ELSE "RadioError", wb.wire, <<>>, 1)

\* the passes for the lo-th to the hi-th block in order, none after one that
\* raised (the range is halved to keep the evaluation shallow)
RECURSIVE UploadLoop(_, _, _, _, _)
UploadLoop(lo, hi, blocks, map, in) ==
    IF lo = hi THEN UploadBody(lo, blocks, map, in)
    ELSE LET mid == (lo + hi) \div 2
             left == UploadLoop(lo, mid, blocks, map, in)
         IN  IF left.status # "run" THEN left
             ELSE Join(left, UploadLoop(mid + 1, hi, blocks, map, in))

\* the default being every block of the image
UploadBlocksWhole(isNone, blocksArg) ==
    IF isNone THEN [k \in 1..(MemSize \div 256) |-> k - 1]
    ELSE SelectSeq(blocksArg, LAMBDA b : b < MemSize \div 256)

\* lines 423-426: the blocks upload writes (blocks = None is isNone)
UploadBlocks(isNone, blocksArg) ==
    IF isNone THEN [k \in 1..(MemSize \div 256 - 2) |-> k - 1]
    ELSE SelectSeq(blocksArg, LAMBDA b : b < MemSize \div 256)

\* upload(blocks)
upload(isNone, blocksArg, map, in) ==
    LET blocks == UploadBlocks(isNone, blocksArg)
        hs == Handshake(in)
        start == Stretch("run", hs.wire, <<>>, 0)
    IN  IF hs.status # "ok" THEN Transfer([start EXCEPT !.status = hs.status], blocks)
        ELSE IF blocks = <<>> THEN Transfer([start EXCEPT !.status = "IndexError"], blocks)
        ELSE LET end == Join(start, UploadLoop(1, Len(blocks), blocks, map, in))
             IN  IF end.status # "run" THEN Transfer(end, blocks)
                 ELSE Transfer(Join(end, Stretch("ok", <<Call("write", <<ChE>>)>>, <<>>, 0)),
                               blocks)

\* line 452: the dirty blocks that were not uploaded
ClearUploaded(d, blocks) == SelectSeq(d, LAMBDA b : b \notin Elems(blocks))

\* line 452 run however the upload ended
UploadDirtyAlways(d, blocks, status) == ClearUploaded(d, blocks)

\* self._dirty_blocks after upload(blocks) ended with status: line 452 is
\* reached only when no block was refused
UploadDirty(d, blocks, status) ==
    IF status = "ok" THEN ClearUploaded(d, blocks) ELSE d

\* a process_mmap that keeps the list
process_mmap_keeps(d) == d

\* process_mmap(): self._dirty_blocks afterwards
process_mmap(d) == <<>>

(***************************************************************************)
(* The list of the class and the lists of the instances                    *)
(***************************************************************************)
Instances == {1, 2}
Other(i) == CHOOSE j \in Instances : j # i

\* a radio made on a serial port: no image, no _memobj, and as its
\* _dirty_blocks the list of the class (line 177)
Fresh == [own |-> FALSE, blocks |-> <<>>, loaded |-> FALSE, mmap |-> <<>>]

\* self._dirty_blocks read on the radio o, the list of the class being k
DirtyBlocks(o, k) == IF o.own THEN o.blocks ELSE k

\* lines 225-226: append and sort change the list self._dirty_blocks names
MutateDirty(o, k, x) ==
    IF o.own THEN [obj |-> [o EXCEPT !.blocks = x], klass |-> k]
    ELSE [obj |-> o, klass |-> x]

\* an assignment that changes the list in place instead
AssignDirtyInPlace(o, k, x) == MutateDirty(o, k, x)

\* lines 200 and 452: self._dirty_blocks = x gives the radio its own list
AssignDirty(o, k, x) == [obj |-> [o EXCEPT !.own = TRUE, !.blocks = x], klass |-> k]

\* lines 199-200 on the radio o whose image is img
LoadImage(o, k, img) ==
    AssignDirty([o EXCEPT !.loaded = TRUE, !.mmap = <<img>>], k, process_mmap(DirtyBlocks(o, k)))

\* the last call: the radio, the method, how it ended, and the list of the
\* other radio when it was called
Act(i, name, status, before) == [on |-> i, op |-> name, status |-> status, before |-> before]
NoAct == Act(0, "none", "none", <<>>)

(***************************************************************************)
(* Inputs of the transfers                                                 *)
(***************************************************************************)
\* the radio works, or misbehaves at one block, or answers the mode command
\* in another way
DownloadScripts(blocks) ==
    {Script(dev, Reply0M, -1, "none") : dev \in DevImages} \cup
    {Script(2, Reply0M, at, kind) : at \in FirstBlock(blocks), kind \in DownloadFaults} \cup
    {Script(2, Reply0M, at, kind) :
        at \in FaultBlocks(blocks), kind \in {"badblock", "split", "stall", "noecho"}} \cup
    {Script(1, m, -1, "none") : m \in {Reply0MNoCR, ReplyN, <<>>}}

\* fewer of them, for the command line
CliScripts(blocks) ==
    {Script(dev, Reply0M, -1, "none") : dev \in DevImages} \cup
    {Script(2, Reply0M, at, kind) :
        at \in FaultBlocks(blocks), kind \in {"badblock", "split"}} \cup
    {Script(1, ReplyN, -1, "none")}

UploadScripts(blocks) ==
    {Script(0, Reply0M, -1, "none")} \cup
    {Script(0, Reply0M, at, kind) : at \in FaultBlocks(blocks), kind \in UploadFaults} \cup
    {Script(0, m, -1, "none") : m \in {Reply0MNoCR, ReplyN, <<>>}}

\* the radio answers the probe at the first rate and then follows a script,
\* or answers the probe in another way and then works
ProbeFirst == [replies |-> ProbeReplies(1, <<>>), wfail |-> 0]
SessionInputs(scripts) ==
    {<<ProbeFirst, in>> : in \in scripts} \cup
    {<<p, Script(1, Reply0M, -1, "none")>> : p \in ProbeInputs}

\* the block lists the command line asks download for (-b, or -f and -l)
BlockListSample == {<<>>, <<5>>, <<0, 255>>, <<3, 4, 5>>, <<5, 300>>}

Session(r, in, d, arg, ch) ==
    [blocks |-> r.blocks, count |-> r.count, in |-> in, dirty0 |-> d, arg |-> arg,
     changed |-> ch, bytes |-> {}, after |-> FALSE]
NoSession ==
    [blocks |-> <<>>, count |-> 0, in |-> NoScript, dirty0 |-> <<>>, arg |-> <<>>,
     changed |-> {}, bytes |-> {}, after |-> FALSE]
\* a call that made no transfer, the dirty blocks being d when it was called
\* and ch the blocks of the image it changed
NoTransfer(d, ch) == [NoSession EXCEPT !.dirty0 = d, !.changed = ch]

\* the blocks in which two images differ
Changed(m0, m1) == {i \in DOMAIN m0 : m0[i] # m1[i]}

\* the bytes in which two images differ: offset, byte in m0, byte in m1
ByteDiff(m0, m1) ==
    LET offs == UNION {
            IF m0[i].fill = m1[i].fill
            THEN {i * BlockSize + p[1] :
                    p \in (m0[i].patch \ m1[i].patch) \cup (m1[i].patch \ m0[i].patch)}
            ELSE {i * BlockSize + o : o \in 0..(BlockSize - 1)} : i \in Changed(m0, m1)}
    IN  {<<o, ByteAt(m0, o), ByteAt(m1, o)>> : o \in {x \in offs : ByteAt(m0, x) # ByteAt(m1, x)}}

\* what the radio holds for block i
Held(st, map, i) ==
    IF \E q \in st : q[1] = i THEN (CHOOSE q \in st : q[1] = i)[2] ELSE map[i]
\* the stale blocks after the image m0 was changed to m1
AfterWrite(st, m0, m1) ==
    {<<i, Held(st, m0, i)>> :
        i \in {j \in Changed(m0, m1) \cup {q[1] : q \in st} : Held(st, m0, j) # m1[j]}}
\* the stale blocks after the radio acknowledged the blocks acked
AfterAck(st, acked) == {q \in st : q[1] \notin acked}
\* the blocks of an upload that were written and acknowledged
Acknowledged(w) ==
    {w[k].arg[3] + 256 * w[k].arg[4] : k \in {j \in 1..(Len(w) - 2) :
        /\ w[j].op = "write" /\ Len(w[j].arg) = 5 /\ w[j].arg[1] = ChW
        /\ w[j + 2] = Call("read", <<ACK>>)}}

\* a set_memory(mem) that left the image as m1: what is kept of the call
MemoryCall(d, mem, m0, m1) ==
    [NoSession EXCEPT !.dirty0 = d, !.arg = <<mem>>, !.changed = Changed(m0, m1),
                      !.bytes = ByteDiff(m0, m1)]

(***************************************************************************)
(* The host calls                                                          *)
(***************************************************************************)
Init ==
    /\ mmap \in {DevImage(dev) : dev \in DevImages}
    /\ dirty = <<>>
    /\ pc = "idle"
    /\ op = "none"
    /\ result = "none"
    /\ wire = <<>>
    /\ ses = NoSession
    /\ data = <<>>
    /\ ret = NoMemory
    /\ stale = {}
    /\ klass = <<>>
    /\ objs = [i \in Instances |-> Fresh]
    /\ act = NoAct
    /\ calls = 0

\* set_memory(mem), mem one of sample
SetMemoryOf(sample) ==
    /\ pc = "idle"
    /\ calls < MaxCalls
    /\ \E mem \in sample :
         \E r \in {set_memory(mmap, dirty, mem)} :
             /\ mmap' = r.mmap
             /\ dirty' = r.dirty
             /\ result' = r.status
             /\ ses' = MemoryCall(dirty, mem, mmap, r.mmap)
             /\ stale' = AfterWrite(stale, mmap, r.mmap)
    /\ pc' = "returned"
    /\ op' = "set_memory"
    /\ wire' = <<>>
    /\ data' = <<>>
    /\ calls' = calls + 1
    /\ UNCHANGED <<ret, klass, objs, act>>

SetMemory == SetMemoryOf(MemSample)

\* sync_in(): _detect_baud(), download(), process_mmap()
SyncIn ==
    /\ pc = "idle"
    /\ calls < MaxCalls
    /\ \E pi \in SessionInputs(DownloadScripts(DownloadBlocks(TRUE, <<>>))) :
         \E p \in {detect_baud(pi[1])} :
           IF p.status # "ok"
           THEN /\ wire' = p.wire
                /\ result' = p.status
                /\ pc' = "returned"
                /\ ses' = NoTransfer(dirty, {})
                /\ data' = <<>>
                /\ UNCHANGED <<mmap, dirty, stale>>
           ELSE \E r \in {download(TRUE, <<>>, pi[2])} :
                /\ wire' = p.wire \o r.wire
                /\ result' = r.status
                /\ pc' = IF r.status = "hang" THEN "hung" ELSE "returned"
                /\ data' = IF r.status = "ok" THEN r.data ELSE <<>>
                /\ mmap' = IF r.status = "ok" THEN MemoryMap(r.data) ELSE mmap
                /\ dirty' = IF r.status = "ok" THEN process_mmap(dirty) ELSE dirty
                /\ ses' = Session(r, pi[2], dirty, <<>>, Changed(mmap, mmap'))
                /\ stale' = IF r.status = "ok" THEN {} ELSE stale
    /\ op' = "sync_in"
    /\ calls' = calls + 1
    /\ UNCHANGED <<ret, klass, objs, act>>

\* sync_out(): _detect_baud(), then upload(self._dirty_blocks), or upload()
\* when the list is empty
SyncOut ==
    /\ pc = "idle"
    /\ calls < MaxCalls
    /\ LET isNone == Len(dirty) = 0
           blocks == UploadBlocks(isNone, dirty)
       IN  \E pi \in SessionInputs(UploadScripts(blocks)) :
             \E p \in {detect_baud(pi[1])} :
               IF p.status # "ok"
               THEN /\ wire' = p.wire
                    /\ result' = p.status
                    /\ ses' = NoTransfer(dirty, {})
                    /\ UNCHANGED <<dirty, stale>>
               ELSE \E r \in {upload(isNone, dirty, mmap, pi[2])} :
                    /\ wire' = p.wire \o r.wire
                    /\ result' = r.status
                    /\ ses' = Session(r, pi[2], dirty, dirty, {})
                    /\ dirty' = UploadDirty(dirty, r.blocks, r.status)
                    /\ stale' = AfterAck(stale, Acknowledged(r.wire))
    /\ pc' = "returned"
    /\ op' = "sync_out"
    /\ data' = <<>>
    /\ calls' = calls + 1
    /\ UNCHANGED <<mmap, ret, klass, objs, act>>

\* lines 541-543: r.download(True, blocks) of the command line
CliDownload ==
    /\ pc = "idle"
    /\ calls < MaxCalls
    /\ \E blocks \in BlockListSample :
         \E in \in CliScripts(DownloadBlocks(FALSE, blocks)) :
           \E r \in {download(FALSE, blocks, in)} :
               /\ wire' = r.wire
               /\ result' = r.status
               /\ pc' = IF r.status = "hang" THEN "hung" ELSE "returned"
               /\ ses' = Session(r, in, dirty, blocks, {})
               /\ data' = IF r.status = "ok" THEN r.data ELSE <<>>
    /\ op' = "download"
    /\ calls' = calls + 1
    /\ UNCHANGED <<mmap, dirty, ret, stale, klass, objs, act>>

\* the call is over: the host has the result and may call again
Return ==
    /\ pc = "returned"
    /\ pc' = "idle"
    /\ op' = "none"
    /\ result' = "none"
    /\ wire' = <<>>
    /\ ses' = NoSession
    /\ data' = <<>>
    /\ ret' = NoMemory
    /\ UNCHANGED <<mmap, dirty, stale, klass, objs, act, calls>>

Next ==
    \/ SetMemory
    \/ SyncIn
    \/ SyncOut
    \/ CliDownload
    \/ Return

Spec == Init /\ [][Next]_vars

(***************************************************************************)
(* The channel calls on their own: get_memory and set_memory applied once  *)
(* to images whose slots hold the records of RawSample                     *)
(***************************************************************************)
\* ordinary (first, last), reserved, scan bank, weather, band scope
CodecSlots == {0, 998, 999, 1000, 1019, 1020, 1029, 1030, 1031}
\* numbers that are no slot
NoSlots == {-1, 1032, 1033, 5000}

\* a channel record: 146.520 MHz, NFM, Tone, "+", offset 600 kHz, and codes
\* of the tables for the tones, the DTCS code and the cross mode
GoodRec == <<192, 183, 187, 8, 0, 1, 129, 1, 2, 3, 1, 192, 39, 9, 0, 85>>
FF8 == <<PadFF, PadFF, PadFF, PadFF, PadFF, PadFF, PadFF, PadFF>>
FF16 == FF8 \o FF8
Raw(flag, rec, name) == [flag |-> flag, rec |-> rec, name |-> name]
\* what a slot holds: its flag record, channel record and name record
RawSample ==
    {Raw(<<0, 1>>, GoodRec, <<65, 66>> \o SubSeq(FF8, 1, 6)),            \* "AB", 0xFF padded
     Raw(<<0, 1>>, GoodRec, <<65, 66, 32, 32, 32, 32, 32, 32>>),         \* "AB", space padded
     Raw(<<0, 0>>, GoodRec, <<65, 66, PadFF, 67, PadFF, PadFF, PadFF, PadFF>>),
     Raw(<<1, 2>>, GoodRec, <<65, 66, 67, 68, 69, 70, 71, 72>>),         \* unknown0 set
     Raw(<<2, 0>>, GoodRec, <<65, 66>> \o SubSeq(FF8, 1, 6)),            \* disabled = 1
     Raw(<<255, 1>>, GoodRec, <<65, 66>> \o SubSeq(FF8, 1, 6)),          \* empty
     Raw(<<254, 0>>, FF16, FF8),                                         \* empty, blank
     Raw(<<0, 0>>, [GoodRec EXCEPT ![7] = 48], FF8),                     \* tone mode 3
     Raw(<<0, 0>>, [GoodRec EXCEPT ![11] = 200], FF8)}                   \* cross mode 200

\* the image with the records of slot n replaced
Poke(map, n, raw) ==
    LET m1 == SetBytes(map, FlagOff(n), raw.flag)
        m2 == SetBytes(m1, MemoryOff(n), raw.rec)
    IN  IF n < 999 THEN SetBytes(m2, ChannelNameOff(n), raw.name)
        ELSE IF n >= 1020 /\ n < 1030 THEN SetBytes(m2, WxNameOff(n - 1020), raw.name)
        ELSE m2

CodecImages ==
    {Poke(DevImage(dev), n, raw) : dev \in DevImages, n \in CodecSlots, raw \in RawSample}

\* another channel: other values in every field, a name of nine characters
OtherChannel(n) ==
    [number |-> n, empty |-> FALSE, name |-> <<67, 68, 69, 70, 71, 72, 73, 74, 75>>,
     freq |-> 145000000, tmode |-> "DTCS", rtone |-> 719, ctone |-> 744, dtcs |-> 31,
     cross_mode |-> "DTCS->", duplex |-> "-", offset |-> 5000000,
     mode |-> "AM", skip |-> ""]

CodecMemSample ==
    UNION {{Channel(n, TRUE, NameAB, 146520000), Channel(n, FALSE, NameAB, 146520000),
            OtherChannel(n)} : n \in CodecSlots \cup NoSlots}

\* "L0", "WX10", "C UHF", and names that are no special location
NameSample ==
    {<<76, 48>>, <<87, 88, 49, 48>>, <<67, 32, 85, 72, 70>>, <<88, 49>>, <<87, 88, 48>>, <<>>}
CodecArgs ==
    {Num(n) : n \in CodecSlots \cup NoSlots} \cup {Str(name) : name \in NameSample}

CodecInit ==
    /\ mmap \in CodecImages
    /\ dirty \in {<<>>, <<12, 21, 94>>}
    /\ pc = "idle"
    /\ op = "none"
    /\ result = "none"
    /\ wire = <<>>
    /\ ses = NoSession
    /\ data = <<>>
    /\ ret = NoMemory
    /\ stale = {}
    /\ klass = <<>>
    /\ objs = [i \in Instances |-> Fresh]
    /\ act = NoAct
    /\ calls = 0

\* get_memory(number)
GetMemory ==
    /\ pc = "idle"
    /\ calls < MaxCalls
    /\ \E arg \in CodecArgs :
         \E g \in {get_memory(mmap, arg)} :
             /\ ret' = g
             /\ result' = g.status
             /\ ses' = [NoSession EXCEPT !.dirty0 = dirty, !.arg = <<arg>>]
    /\ pc' = "returned"
    /\ op' = "get_memory"
    /\ calls' = calls + 1
    /\ UNCHANGED <<mmap, dirty, wire, data, stale, klass, objs, act>>

CodecSetMemory == SetMemoryOf(CodecMemSample)

\* set_memory(mem), mem the channel get_memory has just returned
SetBack ==
    /\ pc = "returned" /\ op = "get_memory" /\ result = "ok" /\ ~ses.after
    /\ \E r \in {set_memory(mmap, dirty, ret)} :
         /\ mmap' = r.mmap
         /\ dirty' = r.dirty
         /\ result' = r.status
         /\ ses' = MemoryCall(dirty, ret, mmap, r.mmap)
         /\ stale' = AfterWrite(stale, mmap, r.mmap)
    /\ op' = "set_memory"
    /\ calls' = calls + 1
    /\ UNCHANGED <<pc, wire, data, ret, klass, objs, act>>

\* get_memory(mem.number), after set_memory(mem) returned
GetAfter ==
    /\ pc = "returned" /\ op = "set_memory" /\ result = "ok"
    /\ \E g \in {get_memory(mmap, Num(ses.arg[1].number))} :
         /\ ret' = g
         /\ result' = g.status
    /\ ses' = [ses EXCEPT !.after = TRUE]
    /\ op' = "get_memory"
    /\ calls' = calls + 1
    /\ UNCHANGED <<mmap, dirty, pc, wire, data, stale, klass, objs, act>>

CodecNext ==
    \/ GetMemory
    \/ CodecSetMemory
    \/ SetBack
    \/ GetAfter

CodecSpec == CodecInit /\ [][CodecNext]_vars

(***************************************************************************)
(* Two radios: set_memory, sync_in and sync_out on either of them          *)
(***************************************************************************)
TwoMemSample ==
    {Channel(0, TRUE, <<>>, 0), Channel(1025, FALSE, NameAB, 0), Channel(1032, FALSE, NameAB, 0)} \cup
    {Channel(n, FALSE, NameAB, 146520000) : n \in {0, 998}}
TwoDownloadScripts ==
    {Script(2, Reply0M, -1, "none"), Script(2, Reply0M, 0, "badblock"),
     Script(1, ReplyN, -1, "none")}
TwoUploadScripts(blocks) ==
    {Script(0, Reply0M, -1, "none"), Script(0, ReplyN, -1, "none")} \cup
    {Script(0, Reply0M, at, "nak") : at \in FirstBlock(blocks)}

\* each radio is made on a serial port, or from the file of an image
TwoInit ==
    /\ mmap = DevImage(1)
    /\ dirty = <<>>
    /\ pc = "idle"
    /\ op = "none"
    /\ result = "none"
    /\ wire = <<>>
    /\ ses = NoSession
    /\ data = <<>>
    /\ ret = NoMemory
    /\ stale = {}
    /\ klass = <<>>
    /\ objs \in [Instances -> {Fresh, LoadImage(Fresh, <<>>, DevImage(2)).obj}]
    /\ act = NoAct
    /\ calls = 0

\* set_memory(mem) on the radio i
TwoSetMemory ==
    /\ calls < MaxCalls
    /\ \E i \in Instances, mem \in TwoMemSample :
         LET o == objs[i]
             before == DirtyBlocks(objs[Other(i)], klass)
         IN  IF mem.number < 0 \/ mem.number > MaxSpecial + 1
             THEN /\ act' = Act(i, "set_memory", "InvalidMemoryLocation", before)
                  /\ UNCHANGED <<klass, objs>>
             ELSE IF ~o.loaded
             THEN /\ act' = Act(i, "set_memory", "AttributeError", before)
                  /\ UNCHANGED <<klass, objs>>
             ELSE \E r \in {set_memory(o.mmap[1], DirtyBlocks(o, klass), mem)} :
                    \E w \in {MutateDirty([o EXCEPT !.mmap = <<r.mmap>>], klass, r.dirty)} :
                       /\ objs' = [objs EXCEPT ![i] = w.obj]
                       /\ klass' = w.klass
                       /\ act' = Act(i, "set_memory", r.status, before)
    /\ calls' = calls + 1
    /\ UNCHANGED one

\* sync_in() on the radio i
TwoSyncIn ==
    /\ calls < MaxCalls
    /\ \E i \in Instances, in \in TwoDownloadScripts :
         LET o == objs[i]
             before == DirtyBlocks(objs[Other(i)], klass)
         IN  \E p \in {detect_baud(ProbeFirst)} :
               IF p.status # "ok"
               THEN /\ act' = Act(i, "sync_in", p.status, before)
                    /\ UNCHANGED <<klass, objs>>
               ELSE \E r \in {download(TRUE, <<>>, in)} :
                      \E w \in {IF r.status = "ok"
                                THEN LoadImage(o, klass, MemoryMap(r.data))
                                ELSE [obj |-> o, klass |-> klass]} :
                         /\ objs' = [objs EXCEPT ![i] = w.obj]
                         /\ klass' = w.klass
                         /\ act' = Act(i, "sync_in", r.status, before)
    /\ calls' = calls + 1
    /\ UNCHANGED one

\* sync_out() on the radio i; without an image write_block (line 379) has
\* nothing to take the block from
TwoSyncOut ==
    /\ calls < MaxCalls
    /\ \E i \in Instances :
         LET o == objs[i]
             before == DirtyBlocks(objs[Other(i)], klass)
             d == DirtyBlocks(o, klass)
             isNone == Len(d) = 0
         IN  \E in \in TwoUploadScripts(UploadBlocks(isNone, d)) :
               \E p \in {detect_baud(ProbeFirst)} :
                 IF p.status # "ok"
                 THEN /\ act' = Act(i, "sync_out", p.status, before)
                      /\ UNCHANGED <<klass, objs>>
                 ELSE IF Len(o.mmap) = 0
                 THEN \E hs \in {Handshake(in)} :
                        /\ act' = Act(i, "sync_out",
                                      IF hs.status = "ok" THEN "TypeError" ELSE hs.status, before)
                        /\ UNCHANGED <<klass, objs>>
                 ELSE \E r \in {upload(isNone, d, o.mmap[1], in)} :
                        \E w \in {IF r.status = "ok"
                                  THEN AssignDirty(o, klass, UploadDirty(d, r.blocks, r.status))
                                  ELSE [obj |-> o, klass |-> klass]} :
                           /\ objs' = [objs EXCEPT ![i] = w.obj]
                           /\ klass' = w.klass
                           /\ act' = Act(i, "sync_out", r.status, before)
    /\ calls' = calls + 1
    /\ UNCHANGED one

TwoNext ==
    \/ TwoSetMemory
    \/ TwoSyncIn
    \/ TwoSyncOut

TwoSpec == TwoInit /\ [][TwoNext]_vars

(***************************************************************************)
(* Reading the pipe calls of a session                                     *)
(***************************************************************************)
\* the host wrote a block frame with command byte cmd
IsFrame(c, cmd) == c.op = "write" /\ Len(c.arg) = 5 /\ c.arg[1] = cmd
FrameBlock(c) == c.arg[3] + 256 * c.arg[4]
\* the blocks of the frames written with command byte cmd, in order
FramesSent(w, cmd) ==
    LET fs == SelectSeq(w, LAMBDA c : IsFrame(c, cmd))
    IN  [k \in 1..Len(fs) |-> FrameBlock(fs[k])]
\* the blocks written and answered with the acknowledgement byte
AckedBlocks(w) ==
    {FrameBlock(w[k]) : k \in {j \in 1..(Len(w) - 2) :
        IsFrame(w[j], ChW) /\ w[j + 2] = Call("read", <<ACK>>)}}
\* the positions at which the end-of-session byte was written
EndPositions(w) == {k \in 1..Len(w) : w[k] = Call("write", <<ChE>>)}
IsAscending(q) == \A k \in 1..(Len(q) - 1) : q[k] < q[k + 1]

Returned(name) == pc = "returned" /\ op = name
\* sync_out got as far as writing blocks and one was not acknowledged
UploadRefused == Returned("sync_out") /\ result = "RadioError" /\ ses.count >= 1

(***************************************************************************)
(* C1: after an upload that fails part-way, the dirty-block set holds      *)
(* exactly the requested blocks that were not acknowledged.                *)
(* As stated this fails: the list is only touched after the last block.    *)
(***************************************************************************)
C1_OnlyUnwrittenStayDirty ==
    (UploadRefused /\ ses.dirty0 # <<>>) =>
        Elems(dirty) = Elems(ses.blocks) \ AckedBlocks(wire)

\* C1 as amended: after an upload that fails part-way the dirty-block set is
\* what it was when sync_out was called; the blocks acknowledged before the
\* failure are still in it, with the blocks not yet acknowledged.
C1_FailedUploadKeepsDirty ==
    UploadRefused =>
        /\ dirty = ses.dirty0
        /\ ses.dirty0 # <<>> =>
              /\ AckedBlocks(wire) \subseteq Elems(dirty)
              /\ Elems(ses.blocks) \ AckedBlocks(wire) \subseteq Elems(dirty)

C1_Witness ==
    UploadRefused /\ ses.dirty0 # <<>> /\ AckedBlocks(wire) # {}

(***************************************************************************)
(* C2: with a non-empty dirty set D and a radio that acknowledges every    *)
(* block, sync_out writes a frame for exactly the blocks of D, once each,  *)
(* ascending, then the byte 'E', and leaves the dirty set empty.           *)
(***************************************************************************)
C2_DirtyUpload ==
    (Returned("sync_out") /\ result = "ok" /\ ses.dirty0 # <<>>) =>
        /\ FramesSent(wire, ChW) = ses.dirty0
        /\ IsAscending(FramesSent(wire, ChW))
        /\ EndPositions(wire) = {Len(wire)}
        /\ dirty = <<>>

C2_Witness ==
    Returned("sync_out") /\ result = "ok" /\ Len(ses.dirty0) >= 4 /\ dirty = <<>>

(***************************************************************************)
(* C3: no run of sync_in, set_memory and sync_out writes block 254 or 255  *)
(* to the radio, whether the full image or the dirty blocks are uploaded;  *)
(* no slot of the tables has a record in those blocks.                     *)
(***************************************************************************)
C3_LastBlocksNeverWritten ==
    /\ \A k \in 1..Len(wire) :
          IsFrame(wire[k], ChW) => FrameBlock(wire[k]) < NumBlocks - 2
    /\ \A b \in Elems(dirty) : b < NumBlocks - 2
    /\ calls = 0 =>
          \A n \in 0..(NumSlots - 1) : \A e \in BOOLEAN :
             \A b \in Elems(set_memory(mmap, <<>>, Channel(n, e, NameAB, 146520000)).dirty) :
                b < NumBlocks - 2

C3_Witness ==
    /\ Returned("sync_out") /\ result = "ok" /\ ses.dirty0 = <<>>
    /\ Len(FramesSent(wire, ChW)) = NumBlocks - 2
    /\ FramesSent(wire, ChW)[NumBlocks - 2] = NumBlocks - 3

(***************************************************************************)
(* C4: a sync_in that completes replaces the image by the 65536 bytes the  *)
(* radio sent and leaves the dirty set empty, whatever it was before.      *)
(***************************************************************************)
C4_SyncInReplaces ==
    (Returned("sync_in") /\ result = "ok") =>
        /\ mmap = DevImage(ses.in.dev)
        /\ DOMAIN mmap = 0..(NumBlocks - 1)
        /\ \A i \in DOMAIN mmap : mmap[i].len = BlockSize
        /\ NumBlocks * BlockSize = 65536
        /\ dirty = <<>>

C4_Witness ==
    Returned("sync_in") /\ result = "ok" /\ ses.dirty0 # <<>> /\ ses.in.dev = 2

(***************************************************************************)
(* C5: a block leaves the dirty set only by a completed sync_in or by an   *)
(* upload the radio acknowledged in full and that wrote the block; a       *)
(* failed sync_in or sync_out removes none, and a successful sync_out      *)
(* writes every block that was dirty when it was called.                   *)
(***************************************************************************)
C5_NeverImplicitlyCleared ==
    pc \in {"returned", "hung"} =>
        /\ \A b \in Elems(ses.dirty0) \ Elems(dirty) :
              \/ op = "sync_in" /\ result = "ok"
              \/ op = "sync_out" /\ result = "ok" /\ b \in AckedBlocks(wire)
        /\ (op \in {"sync_in", "sync_out"} /\ result # "ok") => dirty = ses.dirty0
        /\ (op = "sync_out" /\ result = "ok") => Elems(ses.dirty0) \subseteq AckedBlocks(wire)

C5_Witness ==
    /\ Returned("sync_in") /\ result = "Exception" /\ ses.dirty0 # <<>>
    /\ dirty = ses.dirty0

(***************************************************************************)
(* C6: in every sync_in and sync_out the steps come in the order baud      *)
(* probe, mode handshake, flow handshake, block transfer, session end: a   *)
(* block frame is only written after "0M PROGRAM" was answered "0M", the   *)
(* link set to 57600 baud, CTS read, RTS set and one byte read; after any  *)
(* other answer the session fails and nothing more goes over the pipe.     *)
(***************************************************************************)
ModeCmd == Call("write", CmdProgram \o <<CR>>)
ModePositions(w) == {k \in 1..Len(w) : w[k] = ModeCmd}
\* the mode command at position m was answered "0M" and the flow handshake followed
HandshakeAt(w, m) ==
    /\ Len(w) >= m + 5
    /\ w[m + 1].op = "read" /\ Strip(w[m + 1].arg) = Str0M
    /\ w[m + 2] = Call("setBaudrate", <<57600>>)
    /\ w[m + 3] = Call("getCTS", <<>>)
    /\ w[m + 4] = Call("setRTS", <<>>)
    /\ w[m + 5].op = "read" /\ Len(w[m + 5].arg) = 1

\* the positions of the block frames and of the end-of-session byte
TransferPositions(w) ==
    {k \in 1..Len(w) : IsFrame(w[k], ChR) \/ IsFrame(w[k], ChW) \/ w[k] = Call("write", <<ChE>>)}

C6_ProtocolOrder ==
    (pc \in {"returned", "hung"} /\ op \in {"sync_in", "sync_out"}) =>
        \A M \in {ModePositions(wire)} : \A T \in {TransferPositions(wire)} :
            /\ Cardinality(M) <= 1
            /\ wire[1] = Call("setBaudrate", <<BaudRates[1]>>)
            /\ \A m \in M :
                  /\ m > 1
                  /\ wire[m - 1].op = "read" /\ StartsWith(Strip(wire[m - 1].arg), StrIDsp)
                  /\ ~HandshakeAt(wire, m) => (Len(wire) = m + 1 /\ result = "RadioError")
                  /\ \A k \in T : m + 5 < k
            /\ T # {} => \E m \in M : HandshakeAt(wire, m)
            /\ \A e \in T : wire[e] = Call("write", <<ChE>>) =>
                  (e = Len(wire) /\ \A k \in T : k <= e)

C6_Witness ==
    /\ Returned("sync_in") /\ result = "RadioError"
    /\ \E m \in ModePositions(wire) : Len(wire) = m + 1 /\ wire[m + 1] = Call("read", ReplyN)

(***************************************************************************)
(* C7: during download any mismatch on a block (short response frame,      *)
(* wrong tag, wrong block index, fewer than 256 payload bytes, no echo of  *)
(* the acknowledgement byte) ends the download with an error: no later     *)
(* block is requested, 'E' is not sent, and sync_in leaves the image and   *)
(* the dirty set as they were.                                             *)
(* As stated this fails for the short payload: the read loop goes on.      *)
(***************************************************************************)
HeaderOrEchoMismatch == {"nohdr", "shorthdr", "badtag", "badblock", "badhi", "noecho", "badecho"}
ShortPayload == {"stall"}
\* the call that has just ended was a sync_in in which the radio did one of kinds
SyncInWith(kinds) ==
    pc \in {"returned", "hung"} /\ op = "sync_in" /\ ses.in.kind \in kinds
\* the block with the mismatch is the last one requested, and 'E' was not sent
StoppedAtMismatch ==
    /\ FramesSent(wire, ChR) = [k \in 1..(ses.in.at + 1) |-> k - 1]
    /\ EndPositions(wire) = {}

C7_MismatchIsFatal ==
    SyncInWith(HeaderOrEchoMismatch \cup ShortPayload) =>
        /\ pc = "returned" /\ result = "Exception"
        /\ StoppedAtMismatch
        /\ ses.changed = {} /\ dirty = ses.dirty0

\* C7 as amended: a short response frame, a wrong tag, a wrong block index or
\* a missing echo of the acknowledgement byte ends the download with an
\* error; when fewer than 256 payload bytes are delivered the download does
\* not end: it goes on reading.  In both cases no later block is requested,
\* 'E' is not sent and the image and the dirty set are as before the call.
C7_MismatchStopsTransfer ==
    SyncInWith(HeaderOrEchoMismatch \cup ShortPayload) =>
        /\ ses.in.kind \in HeaderOrEchoMismatch => (pc = "returned" /\ result = "Exception")
        /\ ses.in.kind \in ShortPayload => (pc = "hung" /\ result = "hang")
        /\ StoppedAtMismatch
        /\ ses.changed = {} /\ dirty = ses.dirty0

C7_Witness ==
    /\ SyncInWith({"badblock"}) /\ result = "Exception" /\ ses.in.at > 0
    /\ ses.dirty0 # <<>> /\ dirty = ses.dirty0

(***************************************************************************)
(* C8: a download of block b writes 'R', 0, low byte of b, high byte of b, *)
(* 0, and reads the payload only after a 5-byte response that is exactly   *)
(* 'W', 0, low byte of b, high byte of b, 0; any other response is         *)
(* refused.                                                                *)
(* As stated this fails: the second and the fifth byte are not looked at.  *)
(***************************************************************************)
IsPayloadRead(c) == c.op = "read" /\ c.blk.len > 0
\* the positions of the block requests
Requests(w) == {k \in 1..Len(w) : IsFrame(w[k], ChR)}
RequestBytes(w) ==
    \A k \in Requests(w) :
       LET b == FrameBlock(w[k])
       IN  /\ b \in 0..(NumBlocks - 1)
           /\ w[k].arg = <<ChR, 0, b % 256, b \div 256, 0>>
           /\ k < Len(w) /\ w[k + 1].op = "read" /\ ~IsPayloadRead(w[k + 1])
\* payload is read right after the request at k and its response
PayloadFollows(w, k) == Len(w) >= k + 2 /\ IsPayloadRead(w[k + 2])

C8_ExactResponse ==
    (pc \in {"returned", "hung"} /\ op \in {"sync_in", "download"}) =>
        /\ RequestBytes(wire)
        /\ \A k \in Requests(wire) :
              LET b == FrameBlock(wire[k])
              IN  PayloadFollows(wire, k) <=> wire[k + 1].arg = <<ChW, 0, b % 256, b \div 256, 0>>

\* C8 as amended: the payload is read only after a 5-byte response whose
\* first byte is 'W' and whose third and fourth byte are the low and the
\* high byte of b; a response that differs in one of these, or is shorter,
\* is refused; the second and the fifth byte are not checked.
Accepted(r, b) == Len(r) = 5 /\ r[1] = ChW /\ r[3] = b % 256 /\ r[4] = b \div 256

C8_TagAndIndexChecked ==
    (pc \in {"returned", "hung"} /\ op \in {"sync_in", "download"}) =>
        /\ RequestBytes(wire)
        /\ Frame(ChR, 5) = <<82, 0, 5, 0, 0>>
        /\ \A k \in Requests(wire) :
              /\ PayloadFollows(wire, k) <=> Accepted(wire[k + 1].arg, FrameBlock(wire[k]))
              /\ ~PayloadFollows(wire, k) => (Len(wire) = k + 1 /\ result = "Exception")
        /\ (op = "sync_in" /\ result = "ok") =>
              FramesSent(wire, ChR) = [k \in 1..NumBlocks |-> k - 1]

C8_Witness ==
    /\ Returned("sync_in") /\ result = "ok"
    /\ \E k \in Requests(wire) : wire[k + 1].arg[2] = 1 /\ PayloadFollows(wire, k)

(***************************************************************************)
(* C9: during upload the host writes, for each block, the frame and the    *)
(* 256 image bytes and reads one byte; if that is not 0x06 the upload      *)
(* fails with the refusal error, no later frame is written, the block is   *)
(* not written again and 'E' is not sent.                                  *)
(***************************************************************************)
C9_RefusedBlockAborts ==
    Returned("sync_out") =>
        /\ \A k \in 1..Len(wire) : IsFrame(wire[k], ChW) =>
              /\ Len(wire) >= k + 2
              /\ wire[k].arg = Frame(ChW, FrameBlock(wire[k]))
              /\ wire[k + 1] = CallBlk("write", Slice(mmap, FrameBlock(wire[k]) * 256))
              /\ wire[k + 1].blk.len = 256
              /\ wire[k + 2].op = "read" /\ Len(wire[k + 2].arg) <= 1
              /\ wire[k + 2].arg # <<ACK>> => (Len(wire) = k + 2 /\ result = "RadioError")
        /\ IsAscending(FramesSent(wire, ChW))
        /\ result = "ok" => EndPositions(wire) = {Len(wire)}

C9_Witness ==
    /\ UploadRefused /\ ses.in.kind = "silent" /\ ses.count >= 2
    /\ wire[Len(wire)] = Call("read", <<>>)

(***************************************************************************)
(* C10: for every requested block list S a completed download returns      *)
(* 65536 bytes, block i of which is the payload received for block i when  *)
(* i is in S and 256 bytes 0xFF when it is not; a request is sent for      *)
(* every block of S, ascending, and for no other, and 'E' is sent once,    *)
(* after the last requested block was acknowledged.                        *)
(* As stated this fails for an S with an index that is no block (300).     *)
(***************************************************************************)
Requested == IF op = "sync_in" THEN 0..(NumBlocks - 1) ELSE Elems(ses.arg)
DownloadCompleted == pc = "returned" /\ op \in {"sync_in", "download"} /\ result = "ok"
ImageOf(S) ==
    /\ Len(data) = NumBlocks
    /\ \A i \in 0..(NumBlocks - 1) :
          data[i + 1] = IF i \in S THEN Blk(256, DevFill(ses.in.dev, i), {})
                        ELSE Blk(256, PadFF, {})
EndAfterLastAck ==
    /\ EndPositions(wire) = {Len(wire)}
    /\ Len(wire) >= 2 /\ wire[Len(wire) - 1] = Call("read", <<ACK>>)

C10_DownloadOfAnySet ==
    DownloadCompleted =>
        /\ ImageOf(Requested)
        /\ Elems(FramesSent(wire, ChR)) = Requested
        /\ IsAscending(FramesSent(wire, ChR))
        /\ EndAfterLastAck

\* C10 as amended: the same, with "every block of S" read as every index of
\* S in 0..255: an index of S that is 256 or more is dropped, no request is
\* sent for it.
C10_DownloadOfBlocksInRange ==
    DownloadCompleted =>
        /\ ImageOf(Requested)
        /\ Elems(FramesSent(wire, ChR)) = Requested \cap 0..(NumBlocks - 1)
        /\ IsAscending(FramesSent(wire, ChR))
        /\ EndAfterLastAck

C10_Witness ==
    /\ DownloadCompleted /\ op = "download" /\ ses.arg = <<5, 300>>
    /\ FramesSent(wire, ChR) = <<5>>

(***************************************************************************)
(* C11: the baud probe tries 9600, 19200, 38400, 57600 in that order and   *)
(* stops at the first rate at which "ID" is answered with a response       *)
(* starting with "ID "; it fails with the no-response error exactly when   *)
(* no rate gave such an answer, and then sync_in / sync_out send no mode   *)
(* command and no block frame.                                             *)
(***************************************************************************)
\* the pipe calls of the probe: those before the mode command
ProbePart(w) ==
    IF ModePositions(w) = {} THEN w
    ELSE SubSeq(w, 1, (CHOOSE m \in ModePositions(w) : \A k \in ModePositions(w) : m <= k) - 1)
\* the rates the probe set, in order
RatesTried(w) ==
    LET bs == SelectSeq(w, LAMBDA c : c.op = "setBaudrate")
    IN  [k \in 1..Len(bs) |-> bs[k].arg[1]]
\* the positions of the answers to "ID"
IDAnswers(w) == {k \in 2..Len(w) : w[k - 1] = Call("write", CmdID \o <<CR>>) /\ w[k].op = "read"}
ValidID(r) == StartsWith(Strip(r), StrIDsp)
\* the probe could not write to the pipe
WriteRaised(w) == \E k \in 1..Len(w) : w[k].op = "write_raises"

C11_BaudProbe ==
    (pc \in {"returned", "hung"} /\ op \in {"sync_in", "sync_out"}) =>
        \A P \in {ProbePart(wire)} : \A A \in {IDAnswers(ProbePart(wire))} :
            /\ \E n \in 1..Len(BaudRates) : RatesTried(P) = SubSeq(BaudRates, 1, n)
            /\ Cardinality(A) <= Len(RatesTried(P))
            /\ \A k \in A : ValidID(P[k].arg) => k = Len(P)
            /\ (\E k \in A : ValidID(P[k].arg)) <=> ModePositions(wire) # {}
            /\ (\A k \in A : ~ValidID(P[k].arg)) <=>
                  (result = "RadioError" /\ wire = P /\ TransferPositions(wire) = {})
            /\ (ModePositions(wire) = {} /\ ~WriteRaised(P)) => RatesTried(P) = BaudRates

C11_Witness ==
    /\ Returned("sync_out") /\ result = "ok"
    /\ RatesTried(ProbePart(wire)) = SubSeq(BaudRates, 1, 3)
    /\ Cardinality(IDAnswers(ProbePart(wire))) = 3
    /\ \E k \in IDAnswers(ProbePart(wire)) : wire[k].arg = ReplyQ

(***************************************************************************)
(* C12: for every slot index out of range (no slot 0..1031) and every name *)
(* that is no special-location name, get_memory and set_memory fail with   *)
(* InvalidLocation and no other error, and leave the image and the dirty   *)
(* set unchanged.                                                          *)
(* This fails for 1032: the range check lets it through.                   *)
(***************************************************************************)
\* a get_memory or set_memory has just returned or raised
ChannelCall(name) == pc = "returned" /\ op = name /\ ~ses.after /\ ses.arg # <<>>
OutOfRange(number) == number \notin 0..(NumSlots - 1)

C12_OutOfRangeRejected ==
    /\ (ChannelCall("get_memory") /\
        \/ ses.arg[1].str /\ ses.arg[1].s \notin SpecialNames
        \/ ~ses.arg[1].str /\ OutOfRange(ses.arg[1].n))
          => (result = "InvalidMemoryLocation" /\ ses.bytes = {} /\ dirty = ses.dirty0)
    /\ (ChannelCall("set_memory") /\ OutOfRange(ses.arg[1].number))
          => (result = "InvalidMemoryLocation" /\ ses.bytes = {} /\ dirty = ses.dirty0)

(***************************************************************************)
(* C13: for a weather slot n in 1020..1029 and any channel passed to       *)
(* set_memory, the flag record and the channel record of n are unchanged,  *)
(* the only bytes that change are the 8 bytes of weather name n - 1020,    *)
(* which become the name (cut to 8 characters, filled up with 0xFF), and   *)
(* the only block added to the dirty set is the block of that name.        *)
(***************************************************************************)
IsWeather(n) == n \in 1020..1029
NameField(name) == [k \in 1..NameSize |-> IF k <= Len(name) THEN name[k] ELSE PadFF]
Within(off, len) == off..(off + len - 1)
\* the offsets of the bytes the call changed
BytesChanged == {t[1] : t \in ses.bytes}

C13_WeatherNameOnly ==
    (ChannelCall("set_memory") /\ IsWeather(ses.arg[1].number)) =>
        LET n == ses.arg[1].number
        IN  /\ result = "ok"
            /\ BytesChanged \subseteq Within(WxNameOff(n - 1020), NameSize)
            /\ BytesChanged \cap (Within(FlagOff(n), FlagSize) \cup Within(MemoryOff(n), MemorySize)) = {}
            /\ Bytes(mmap, WxNameOff(n - 1020), NameSize) = NameField(ses.arg[1].name)
            /\ Elems(dirty) = Elems(ses.dirty0) \cup {WxNameOff(n - 1020) \div BlockSize}
            /\ IsAscending(dirty)

C13_Witness ==
    /\ ChannelCall("set_memory") /\ ses.arg[1].number = 1029 /\ ~ses.arg[1].empty
    /\ ses.arg[1].freq = 145000000 /\ ses.dirty0 # <<>>
    /\ Cardinality(BytesChanged) = NameSize
    /\ FromUL32(Bytes(mmap, MemoryOff(1029), 4)) = 146520000

(***************************************************************************)
(* C14: for a slot that is no weather slot, set_memory with a channel      *)
(* marked empty sets the flag field disabled to 0x7F and touches nothing   *)
(* else (not the skip field, the channel record or a name), and            *)
(* get_memory of the slot then returns an empty channel whatever the       *)
(* other bytes of the slot hold.                                           *)
(***************************************************************************)
\* set_memory of an empty channel on a slot that is no weather slot
MarkedEmpty ==
    /\ pc = "returned" /\ ses.arg # <<>> /\ (op = "set_memory" \/ ses.after)
    /\ ses.arg[1].number \in 0..(NumSlots - 1) /\ ~IsWeather(ses.arg[1].number)
    /\ ses.arg[1].empty

C14_EmptyOnlyDisables ==
    MarkedEmpty =>
        LET n == ses.arg[1].number
        IN  /\ FlagDisabled(mmap, n) = 127
            /\ \A t \in ses.bytes : t[1] = FlagOff(n) /\ t[3] % 2 = t[2] % 2
            /\ op = "set_memory" => result = "ok"
            /\ ses.after =>
                  (result = "ok" /\ ret.empty /\ ret.number = n /\ ret.name = <<>> /\ ret.freq = 0)

C14_Witness ==
    /\ MarkedEmpty /\ ses.after /\ ret.empty
    /\ ses.bytes = {<<FlagOff(1000), 0, 254>>}
    /\ ByteAt(mmap, MemoryOff(1000) + 6) = 48

(***************************************************************************)
(* C15: round trip: for every ordinary slot i (0..998) that is not empty   *)
(* and whose raw codes are all in the decode tables,                       *)
(* set_memory(get_memory(i)) leaves the flag record, the channel record    *)
(* and the name record of slot i byte-identical, whatever they hold        *)
(* (names padded with spaces or with 0xFF included).                       *)
(* As stated this fails: a name padded with spaces comes back padded with  *)
(* 0xFF, and a disabled code other than 0 and 0x7F comes back as 0.        *)
(***************************************************************************)
\* set_memory was called with the channel get_memory returned for a slot
\* below 999 that is not empty
RoundTrip ==
    /\ ChannelCall("set_memory") /\ ret.status = "ok" /\ ses.arg[1] = ret
    /\ ret.number \in 0..998 /\ ~ret.empty
\* the bytes of the three records of slot n
SlotBytes(n) ==
    Within(FlagOff(n), FlagSize) \cup Within(MemoryOff(n), MemorySize) \cup
    Within(ChannelNameOff(n), NameSize)

C15_RoundTripIdentical ==
    RoundTrip => (result = "ok" /\ BytesChanged \cap SlotBytes(ret.number) = {})

\* C15 as amended: the same for the slots whose flag field disabled is 0 and
\* whose name record is a name without whitespace at its end, followed by
\* nothing but 0xFF up to the eighth byte; for the other slots the round
\* trip sets disabled to 0 and writes the name record anew, as the name cut
\* at the first 0xFF, without the whitespace at its end, filled up with 0xFF.
\* the byte at offset o before the call
ByteBefore(o) ==
    IF o \in BytesChanged THEN (CHOOSE t \in ses.bytes : t[1] = o)[2] ELSE ByteAt(mmap, o)
NameBefore(n) == [k \in 1..NameSize |-> ByteBefore(ChannelNameOff(n) + k - 1)]
\* the name, then 0xFF only, and no whitespace at the end of the name
PlainName(b) ==
    \E len \in 0..NameSize :
        /\ \A k \in 1..NameSize : (b[k] = PadFF) <=> (k > len)
        /\ len > 0 => ~IsSpace(b[len])

C15_RoundTripOfPlainSlot ==
    RoundTrip =>
        LET n == ret.number
        IN  /\ result = "ok"
            /\ BytesChanged \subseteq SlotBytes(n)
            /\ (ByteBefore(FlagOff(n)) \div 2 = 0 /\ PlainName(NameBefore(n))) => ses.bytes = {}
            /\ FlagDisabled(mmap, n) = 0
            /\ Bytes(mmap, ChannelNameOff(n), NameSize) = NameField(ret.name)
            /\ BytesChanged \cap Within(MemoryOff(n), MemorySize) = {}
            /\ FlagOff(n) + 1 \notin BytesChanged

C15_Witness ==
    /\ RoundTrip /\ ret.number = 0 /\ ses.bytes = {}
    /\ ret.name = <<65, 66, 67, 68, 69, 70, 71, 72>> /\ ret.freq = 146520000
    /\ ret.skip = "P" /\ ret.cross_mode = "DTCS->" /\ ret.tmode = "Tone"

(***************************************************************************)
(* C16: for every special slot n in 1000..1031 and every image content,    *)
(* the channel get_memory(n) returns has the extended identifier of n and  *)
(* an immutable set holding number, bank, extd_number and cross_mode,      *)
(* with freq, offset, tone, mode, tmode, ctone and skip for a weather      *)
(* slot, and with name for a scan-bank or band-scope slot.                 *)
(* As stated this fails for a slot that is empty: get_memory returns       *)
(* before it sets the immutable fields.                                    *)
(***************************************************************************)
\* get_memory returned the channel of a special slot
SpecialReturned ==
    /\ ChannelCall("get_memory") /\ result = "ok" /\ ret.number \in 1000..MaxSpecial
\* the name of special slot n: L0..L9 and U0..U9 in turn, WX1..WX10, C VHF, C UHF
ExtdName(n) ==
    IF n < 1020 THEN <<IF n % 2 = 0 THEN 76 ELSE 85, 48 + ((n - 1000) \div 2)>>
    ELSE IF n < 1029 THEN <<87, 88, 48 + (n - 1019)>>
    ELSE IF n = 1029 THEN <<87, 88, 49, 48>>
    ELSE IF n = 1030 THEN <<67, 32, 86, 72, 70>> ELSE <<67, 32, 85, 72, 70>>
ImmutableOf(n) ==
    {"number", "bank", "extd_number", "cross_mode"} \cup
    (IF IsWeather(n) THEN {"freq", "offset", "tone", "mode", "tmode", "ctone", "skip"}
     ELSE {"name"})

C16_SpecialImmutable ==
    SpecialReturned =>
        /\ ret.extd_number = ExtdName(ret.number)
        /\ Elems(ret.immutable) = ImmutableOf(ret.number)

\* C16 as amended: the same for every special slot that is not empty; for an
\* empty one the channel returned has the extended identifier and is marked
\* empty, and its immutable set is empty.
C16_SpecialImmutableUnlessEmpty ==
    SpecialReturned =>
        /\ ret.extd_number = ExtdName(ret.number)
        /\ ses.arg[1].str => (ses.arg[1].s = ExtdName(ret.number))
        /\ ~ses.arg[1].str => (ses.arg[1].n = ret.number)
        /\ ret.empty <=> (FlagDisabled(mmap, ret.number) = 127)
        /\ ~ret.empty => Elems(ret.immutable) = ImmutableOf(ret.number)
        /\ ret.empty => ret.immutable = <<>>

C16_Witness ==
    /\ SpecialReturned /\ ses.arg[1] = Str(<<87, 88, 49, 48>>) /\ ret.number = 1029
    /\ ~ret.empty /\ Len(ret.immutable) = 11 /\ ret.name = <<65, 66>>

(***************************************************************************)
(* C17: set_memory writes the fields of the ordinary slots only for slots  *)
(* below 999: for a slot n >= 999 that is no weather slot and a channel    *)
(* that is not empty, it leaves the cross-mode byte of the channel record  *)
(* of n, the skip field of its flag record and every name unchanged.       *)
(* This fails for the cross-mode byte: line 336 writes it for every slot.  *)
(***************************************************************************)
CrossModeOff(n) == MemoryOff(n) + 10
SkipOff(n) == FlagOff(n) + 1
NameTables == Within(NameBase, NameSize * 1000) \cup Within(WxNameBase, NameSize * 10)

C17_OrdinaryFieldsBelow999 ==
    (/\ ChannelCall("set_memory") /\ result = "ok"
     /\ ses.arg[1].number \in 999..(NumSlots - 1)
     /\ ~IsWeather(ses.arg[1].number) /\ ~ses.arg[1].empty) =>
        /\ CrossModeOff(ses.arg[1].number) \notin BytesChanged
        /\ SkipOff(ses.arg[1].number) \notin BytesChanged
        /\ BytesChanged \cap NameTables = {}

(***************************************************************************)
(* C18: in every reachable state the dirty-block list holds each block at  *)
(* most once, in ascending order; marking a record whose block (offset     *)
(* divided by 256, rounded down) is in the list leaves the list as it is:  *)
(* the records at 0x1500 and 0x1510 give one entry, block 0x15, and        *)
(* marking the same slot empty a second time does not change the list.     *)
(***************************************************************************)
C18_DirtyListIsSet ==
    /\ IsAscending(dirty)
    /\ \A b \in Elems(dirty) : \A o \in {0, 16, BlockSize - 1} :
          add_dirty_block(dirty, b * BlockSize + o) = dirty
    /\ add_dirty_block(add_dirty_block(<<>>, 5376), 5392) = <<21>>
    /\ (Returned("set_memory") /\ result = "ok") =>
          set_memory(mmap, dirty, ses.arg[1]).dirty = dirty

C18_Witness ==
    /\ Returned("set_memory") /\ result = "ok" /\ ses.arg[1].empty /\ ses.arg[1].number = 0
    /\ dirty = ses.dirty0 /\ Len(dirty) >= 3 /\ ses.bytes = {}

(***************************************************************************)
(* C19: dirty tracking is complete: every block of the image whose content *)
(* differs from what the radio last sent or last acknowledged for it is in *)
(* the dirty-block list; no set_memory changes a byte (flag, channel       *)
(* record, re-initialization pattern, name, weather name) in a block it    *)
(* does not mark dirty.                                                    *)
(***************************************************************************)
C19_DirtyTrackingComplete ==
    /\ {q[1] : q \in stale} \subseteq Elems(dirty)
    /\ \A q \in stale : q[2] # mmap[q[1]]
    /\ Returned("set_memory") =>
          /\ ses.changed \subseteq Elems(dirty)
          /\ {t[1] \div BlockSize : t \in ses.bytes} = ses.changed

C19_Witness ==
    /\ Returned("set_memory") /\ result = "ok" /\ Cardinality(ses.changed) = 3
    /\ \E t \in ses.bytes : t[1] = MemoryOff(0) + 15 /\ t[3] = PadFF
    /\ \E q \in stale : q[1] \notin ses.changed

(***************************************************************************)
(* C20: the dirty-block list is state of the instance: with two radios, no *)
(* set_memory, sync_in or sync_out on one of them adds a block to the      *)
(* dirty-block list of the other or takes one from it.                     *)
(***************************************************************************)
C20_DirtyPerInstance ==
    act.on \in Instances =>
        DirtyBlocks(objs[Other(act.on)], klass) = act.before

C20_Witness ==
    /\ act.on \in Instances /\ act.op = "set_memory" /\ act.status = "ok"
    /\ Len(DirtyBlocks(objs[act.on], klass)) >= 2
    /\ ~objs[Other(act.on)].own

====
